---- MODULE Spec2Model ----
(***************************************************************************)
(* Model of the recipe rating aggregation and the ingredient-based         *)
(* discovery of the Na Winie backend (backend/services/recipe_service.py,  *)
(* backend/routers/recipes.py, backend/models/recipe.py).                  *)
(*                                                                         *)
(* The store is the relational database: the recipes table, the            *)
(* recipe_ratings table and the recipe_ingredients table.  Every request   *)
(* is served by a worker with its own SQLAlchemy session                   *)
(* (autoflush=False, database.py:28), so the statements of one request     *)
(* interleave with the statements of the others: each action below is one  *)
(* database statement (or the commit) of one request.  rate_recipe reads   *)
(* and writes the rows and the fields of the one recipe it is called for,  *)
(* so the ratings are modelled on one recipe.                              *)
(*                                                                         *)
(* average_rating is kept in hundredths (3.67 is 367), which is exact for  *)
(* values rounded to two decimals.                                         *)
(***************************************************************************)
EXTENDS Integers, Sequences, FiniteSets, TLC

\* ---------------------------------------------------------------- bounds
NumWorkers == 2
NumUsers == 2
MaxCalls == 3
MaxRecipeIngredients == 2
MaxCreated == 2
MaxQueryLen == 2
MaxTasks == 1
MaxListed == 3
MaxPage == 2
NumThreads == 2
MaxTime == 3
MaxLimit == 2
\* the window of every configured limit (60 s), the cleanup period (300 s)
\* and the default ttl of a cache entry (900 s), in ticks
WindowSeconds == 1
CleanupInterval == 2
CacheTtl == 1

\* ------------------------------------------------------ program constants
RatingMin == 1
RatingMax == 5
FindLimit == 50
ListLimitMax == 100

Workers == 1..NumWorkers
Users == 1..NumUsers
\* the recipe the ratings are about, and an id that references no recipe
RecipeIds == {1}
RecipeIdInputs == {0} \cup RecipeIds
\* the boundary values of the rating: 0 and 6 are invalid, 1 and 5 are valid
RatingInputs == {RatingMin - 1, RatingMin, RatingMax, RatingMax + 1}
\* the rows of the ingredients table; the ids 0 and 3 reference no ingredient
IngredientIds == {1, 2}
IngredientIdInputs == {0, 3} \cup IngredientIds

VARIABLES
    recipes,            \* recipes table: id -> [average_rating, total_votes]
    ratings,            \* recipe_ratings table: set of rows
    recipe_ingredients, \* recipe_ingredients table: set of rows
    pc,                 \* position of each worker inside rate_recipe
    req,                \* the request each worker is serving
    session,            \* per worker: values assigned in its open transaction
    response,           \* the HTTP response sent in the last step, with its request
    calls,              \* number of Rate requests received so far
    successes,          \* history: Rate requests answered 200 per (user, recipe)
    findResult,         \* response of the last create/find request
    listResult,         \* response of the last list request
    tasks,              \* background tasks created and not yet run
    windows,            \* SlidingWindowRateLimiter._windows: identifier -> timestamps
    last_cleanup,       \* SlidingWindowRateLimiter._last_cleanup
    cache,              \* InMemoryCache._cache: key -> [value, expires_at]
    now,                \* the clock (time.time(), datetime.utcnow()), in ticks
    threads,            \* per thread: its call into a collaborator and its position
    returned,           \* the call that returned in the last step, with its result
    admitted,           \* history: per identifier the timestamps admitted in the last window
    admitted_by,        \* history: the same admissions with the endpoint class of each
    last_set,           \* history: per key the latest set that a get may still return
    ingredients,        \* ingredients table: the names of the rows created
    caches,             \* per worker process: its InMemoryCache._cache
    foreign_keys        \* deployment: does the database enforce foreign keys

vars == <<recipes, ratings, recipe_ingredients, pc, req, session, response,
          calls, successes, findResult, listResult, tasks, windows,
          last_cleanup, cache, now, threads, returned, admitted, admitted_by,
          last_set, ingredients, caches, foreign_keys>>

\* the ingredients table and the cache each worker process keeps of its lists
ingredientVars == <<ingredients, caches>>

\* the database chosen by DATABASE_URL: fixed when the engine is created
deployVars == <<foreign_keys>>

rateVars == <<pc, req, session, response, calls, successes>>

\* the rate limiter, the cache, the clock and the threads calling them
utilVars == <<windows, last_cleanup, cache, now, threads, returned, admitted,
              admitted_by,
              last_set, ingredientVars, deployVars>>

\* what the rating operation and create_recipe leave alone
otherVars == <<listResult, tasks, utilVars>>

\* ---------------------------------------------------------------- helpers
RECURSIVE SumRatings(_)
SumRatings(rows) ==
    IF rows = {} THEN 0
    ELSE LET row == CHOOSE x \in rows : TRUE
         IN row.rating + SumRatings(rows \ {row})

\* round(sum / n, 2) in hundredths; Python rounds an exact half to even
Round2(sum, n) ==
    LET q == (100 * sum) \div n
        r == (100 * sum) % n
    IN IF 2 * r < n THEN q
       ELSE IF 2 * r > n THEN q + 1
       ELSE IF q % 2 = 0 THEN q ELSE q + 1

RatingsOf(recipe_id) == {row \in ratings : row.recipe_id = recipe_id}

ExistingRating(recipe_id, user_id) ==
    {row \in ratings : row.recipe_id = recipe_id /\ row.user_id = user_id}

\* RecipeRating.id (default=uuid.uuid4): a value no other row holds
NewRatingId(recipe_id, user_id) ==
    Cardinality(ExistingRating(recipe_id, user_id)) + 1

NewRecipe == [average_rating |-> 0, total_votes |-> 0]

NoReq == [recipe_id |-> 0, user_id |-> 0, rating |-> 0]
NoSession == [recipe |-> NewRecipe, new_average |-> 0, total_ratings |-> 0]
NoResponse == [req |-> NoReq, status |-> 0, detail |-> "", exc |-> "",
               average_rating |-> 0, total_votes |-> 0]

\* variant: the lower bound of the field is 0
RateRecipeRequest_Ge0(rating) == rating >= 0 /\ rating <= RatingMax

\* RateRecipeRequest: rating: int = Field(..., ge=1, le=5)
RateRecipeRequest(rating) == rating >= RatingMin /\ rating <= RatingMax

\* the router's translation of the service's outcome into a response
RateResponse(request, exc, msg, average_rating, total_votes) ==
    IF exc = "" THEN
        [req |-> request, status |-> 200, detail |-> "", exc |-> "",
         average_rating |-> average_rating, total_votes |-> total_votes]
    ELSE IF exc = "None" THEN
        [req |-> request, status |-> 404, detail |-> "Recipe not found", exc |-> exc,
         average_rating |-> 0, total_votes |-> 0]
    ELSE IF exc = "ValueError" THEN
        [req |-> request, status |-> 409, detail |-> msg, exc |-> exc,
         average_rating |-> 0, total_votes |-> 0]
    ELSE
        [req |-> request, status |-> 500, detail |-> "Internal server error", exc |-> exc,
         average_rating |-> 0, total_votes |-> 0]

ValidationResponse(request) ==
    [req |-> request, status |-> 422, detail |-> "validation error", exc |-> "RequestValidationError",
     average_rating |-> 0, total_votes |-> 0]

\* variant: the table has no uniqueness constraint on (user_id, recipe_id)
ConstraintViolation_NoUnique(row) ==
    \/ ~(row.rating >= 1 /\ row.rating <= 5)
    \/ foreign_keys /\ row.recipe_id \notin DOMAIN recipes

\* constraints of the recipe_ratings table; the reference to recipes.id is
\* checked only by a database that enforces foreign keys
ConstraintViolation(row) ==
    \/ ExistingRating(row.recipe_id, row.user_id) # {}
    \/ ~(row.rating >= 1 /\ row.rating <= 5)
    \/ foreign_keys /\ row.recipe_id \notin DOMAIN recipes

\* ------------------------------------------------------------ rate_recipe
\* the request of worker w is answered: its session is closed
Finish(w, resp) ==
    /\ pc' = [pc EXCEPT ![w] = "idle"]
    /\ req' = [req EXCEPT ![w] = NoReq]
    /\ session' = [session EXCEPT ![w] = NoSession]
    /\ response' = resp

\* variant: the missing recipe is not detected
RateLookup_NoNoneCheck(w, request) ==
    /\ pc' = [pc EXCEPT ![w] = "precheck"]
    /\ req' = [req EXCEPT ![w] = request]
    /\ session' = [session EXCEPT ![w].recipe =
                      IF request.recipe_id \in DOMAIN recipes
                      THEN recipes[request.recipe_id] ELSE NewRecipe]
    /\ response' = NoResponse

\* recipe = db.query(Recipe).filter(Recipe.id == recipe_id).first()
RateLookup(w, request) ==
    IF request.recipe_id \in DOMAIN recipes
    THEN /\ pc' = [pc EXCEPT ![w] = "precheck"]
         /\ req' = [req EXCEPT ![w] = request]
         /\ session' = [session EXCEPT ![w].recipe = recipes[request.recipe_id]]
         /\ response' = NoResponse
    ELSE Finish(w, RateResponse(request, "None", "", 0, 0))

\* the workers are interchangeable: a request is served by the first free one
FreeWorker(w) ==
    /\ pc[w] = "idle"
    /\ \A v \in Workers : pc[v] = "idle" => w <= v

\* the request arrives: the body is validated, then the handler runs up to
\* its first statement, the lookup of the recipe (nothing before the lookup
\* reads or writes the store, so the arrival and the lookup are one step)
RateRequest(w, recipe_id, user_id, rating) ==
    LET request == [recipe_id |-> recipe_id, user_id |-> user_id, rating |-> rating]
    IN /\ calls < MaxCalls
       /\ FreeWorker(w)
       /\ calls' = calls + 1
       /\ IF RateRecipeRequest(rating)
          THEN RateLookup(w, request)
          ELSE Finish(w, ValidationResponse(request))
       /\ UNCHANGED <<recipes, ratings, recipe_ingredients, successes, findResult, otherVars>>

\* variant: no pre-check, the insert is left to the constraint
RatePrecheck_Skipped(w) ==
    /\ pc[w] = "precheck"
    /\ pc' = [pc EXCEPT ![w] = "recount"]
    /\ response' = NoResponse
    /\ UNCHANGED <<recipes, ratings, recipe_ingredients, req, session,
                   calls, successes, findResult, otherVars>>

\* existing_rating = db.query(RecipeRating).filter(...).first()
RatePrecheck(w) ==
    /\ pc[w] = "precheck"
    /\ IF ExistingRating(req[w].recipe_id, req[w].user_id) # {}
       THEN Finish(w, RateResponse(req[w], "ValueError",
                                   "User has already rated this recipe", 0, 0))
       ELSE /\ pc' = [pc EXCEPT ![w] = "recount"]
            /\ response' = NoResponse
            /\ UNCHANGED <<req, session>>
    /\ UNCHANGED <<recipes, ratings, recipe_ingredients, calls,
                   successes, findResult, otherVars>>

\* variant: the new average is derived from the recipe's stored fields
RateRecount_Incremental(w) ==
    /\ pc[w] = "recount"
    /\ LET recipe == session[w].recipe
           total_ratings == recipe.total_votes + 1
           sum_hundredths == recipe.average_rating * recipe.total_votes
                               + 100 * req[w].rating
       IN session' = [session EXCEPT
                         ![w].new_average = sum_hundredths \div total_ratings,
                         ![w].total_ratings = total_ratings]
    /\ pc' = [pc EXCEPT ![w] = "commit"]
    /\ response' = NoResponse
    /\ UNCHANGED <<recipes, ratings, recipe_ingredients, req, calls,
                   successes, findResult, otherVars>>

\* db.add(recipe_rating) is pending in the session (no autoflush); the
\* query reads the committed rows and the new rating is added by hand; the
\* recipe object loaded by the lookup is not read
RateRecount(w) ==
    /\ pc[w] = "recount"
    /\ LET rows == RatingsOf(req[w].recipe_id)
           total_ratings == Cardinality(rows) + 1
           sum_ratings == SumRatings(rows) + req[w].rating
       IN session' = [session EXCEPT
                         ![w].new_average = Round2(sum_ratings, total_ratings),
                         ![w].total_ratings = total_ratings]
    /\ pc' = [pc EXCEPT ![w] = "commit"]
    /\ response' = NoResponse
    /\ UNCHANGED <<recipes, ratings, recipe_ingredients, req, calls,
                   successes, findResult, otherVars>>

\* the row the session inserts for the request of worker w
NewRating(w) ==
    [id |-> NewRatingId(req[w].recipe_id, req[w].user_id),
     user_id |-> req[w].user_id, recipe_id |-> req[w].recipe_id,
     rating |-> req[w].rating]

\* the flush emits an UPDATE of the recipe only for attributes whose value
\* differs from the loaded one
RecipeModified(w) ==
    \/ session[w].recipe.average_rating # session[w].new_average
    \/ session[w].recipe.total_votes # session[w].total_ratings

\* the UPDATE of the recipe matches no row: the recipe was deleted after the
\* lookup (the flush raises StaleDataError)
StaleRecipe(w) == req[w].recipe_id \notin DOMAIN recipes /\ RecipeModified(w)

\* UPDATE recipes SET average_rating = ?, total_votes = ? WHERE id = ?
UpdateRatingFields(w) ==
    IF req[w].recipe_id \in DOMAIN recipes
    THEN [recipes EXCEPT ![req[w].recipe_id].average_rating = session[w].new_average,
                         ![req[w].recipe_id].total_votes = session[w].total_ratings]
    ELSE recipes

\* variant: the recipe's UPDATE survives the failed INSERT (no rollback)
RateCommit_NoRollback(w) ==
    /\ pc[w] = "commit"
    /\ recipes' = UpdateRatingFields(w)
    /\ IF ConstraintViolation(NewRating(w))
       THEN /\ Finish(w, RateResponse(req[w], "IntegrityError", "", 0, 0))
            /\ UNCHANGED <<ratings, successes>>
       ELSE /\ ratings' = ratings \cup {NewRating(w)}
            /\ Finish(w, RateResponse(req[w], "", "", session[w].new_average,
                                      session[w].total_ratings))
            /\ successes' = [successes EXCEPT
                                ![<<req[w].user_id, req[w].recipe_id>>] = @ + 1]
    /\ UNCHANGED <<recipe_ingredients, calls, findResult, otherVars>>

\* db.commit(): UPDATE of the recipe and INSERT of the rating in one
\* transaction; a failure (an UPDATE that matches no row, a constraint) rolls
\* the whole transaction back
RateCommit(w) ==
    /\ pc[w] = "commit"
    /\ IF StaleRecipe(w)
       THEN /\ Finish(w, RateResponse(req[w], "StaleDataError", "", 0, 0))
            /\ UNCHANGED <<recipes, ratings, successes>>
       ELSE IF ConstraintViolation(NewRating(w))
       THEN /\ Finish(w, RateResponse(req[w], "IntegrityError", "", 0, 0))
            /\ UNCHANGED <<recipes, ratings, successes>>
       ELSE /\ ratings' = ratings \cup {NewRating(w)}
            /\ recipes' = UpdateRatingFields(w)
            /\ Finish(w, RateResponse(req[w], "", "", session[w].new_average,
                                      session[w].total_ratings))
            /\ successes' = [successes EXCEPT
                                ![<<req[w].user_id, req[w].recipe_id>>] = @ + 1]
    /\ UNCHANGED <<recipe_ingredients, calls, findResult, otherVars>>

\* the lookup fails in the store: the service rolls back and re-raises, the
\* router answers 500
RateLookupError(w, recipe_id, user_id, rating) ==
    LET request == [recipe_id |-> recipe_id, user_id |-> user_id, rating |-> rating]
    IN /\ calls < MaxCalls
       /\ FreeWorker(w)
       /\ RateRecipeRequest(rating)
       /\ calls' = calls + 1
       /\ Finish(w, RateResponse(request, "OperationalError", "", 0, 0))
       /\ UNCHANGED <<recipes, ratings, recipe_ingredients, successes, findResult, otherVars>>

\* a later statement (or the commit) fails in the store: the service rolls
\* back and re-raises, the router answers 500
RateStoreError(w) ==
    /\ pc[w] \in {"precheck", "recount", "commit"}
    /\ Finish(w, RateResponse(req[w], "OperationalError", "", 0, 0))
    /\ UNCHANGED <<recipes, ratings, recipe_ingredients, calls,
                   successes, findResult, otherVars>>

\* ------------------------------------------------------------ delete_recipe
\* the user who wrote the recipes of the store
AuthorId == 1

\* the users who rate and delete: the author and NumUsers others
Raters == 1..(NumUsers + 1)

\* a recipe as create_recipe stored it for its author
OwnedRecipe == [average_rating |-> 0, total_votes |-> 0, author_id |-> AuthorId]

\* the RecipeIngredient rows create_recipe stored with the recipes
OwnedIngredients ==
    {[id |-> <<r, 1>>, recipe_id |-> r, ingredient_id |-> 1] : r \in RecipeIds}

\* the router's translation of delete_recipe's outcome into a response
DeleteResponse(request, exc) ==
    IF exc = "" THEN
        [req |-> request, status |-> 204, detail |-> "", exc |-> "",
         average_rating |-> 0, total_votes |-> 0]
    ELSE IF exc = "False" THEN
        [req |-> request, status |-> 404,
         detail |-> "Recipe not found or access denied", exc |-> exc,
         average_rating |-> 0, total_votes |-> 0]
    ELSE
        [req |-> request, status |-> 500, detail |-> "Internal server error", exc |-> exc,
         average_rating |-> 0, total_votes |-> 0]

\* the request arrives and the handler runs up to its first statement, the
\* lookup of the recipe; a missing recipe or another user's recipe: False
DeleteRequest(w, recipe_id, user_id) ==
    LET request == [recipe_id |-> recipe_id, user_id |-> user_id, rating |-> 0]
    IN /\ calls < MaxCalls
       /\ FreeWorker(w)
       /\ calls' = calls + 1
       /\ IF recipe_id \in DOMAIN recipes /\ recipes[recipe_id].author_id = user_id
          THEN /\ pc' = [pc EXCEPT ![w] = "cascade"]
               /\ req' = [req EXCEPT ![w] = request]
               /\ session' = [session EXCEPT ![w].recipe = recipes[recipe_id]]
               /\ response' = NoResponse
          ELSE Finish(w, DeleteResponse(request, "False"))
       /\ UNCHANGED <<recipes, ratings, recipe_ingredients, successes, findResult, otherVars>>

\* db.delete(recipe): the cascade loads recipe.ingredients and recipe.ratings
\* into the session and marks the rows it found for deletion
DeleteCascade(w) ==
    /\ pc[w] = "cascade"
    /\ session' = [session EXCEPT ![w] =
                      [recipe |-> @.recipe, new_average |-> 0, total_ratings |-> 0,
                       ingredients |-> {row \in recipe_ingredients :
                                           row.recipe_id = req[w].recipe_id},
                       ratings |-> RatingsOf(req[w].recipe_id)]]
    /\ pc' = [pc EXCEPT ![w] = "delete"]
    /\ response' = NoResponse
    /\ UNCHANGED <<recipes, ratings, recipe_ingredients, req, calls,
                   successes, findResult, otherVars>>

\* db.commit(): DELETE of the rows the cascade loaded, by primary key, then
\* DELETE of the recipe; a database that enforces foreign keys refuses to
\* delete a recipe that rows still reference, and the transaction is rolled back
DeleteCommit(w) ==
    /\ pc[w] = "delete"
    /\ LET recipe_id == req[w].recipe_id
           kept_ratings == ratings \ session[w].ratings
           kept_ingredients == recipe_ingredients \ session[w].ingredients
           referenced == \E row \in kept_ratings \cup kept_ingredients :
                            row.recipe_id = recipe_id
       IN IF foreign_keys /\ recipe_id \in DOMAIN recipes /\ referenced
          THEN /\ Finish(w, DeleteResponse(req[w], "IntegrityError"))
               /\ UNCHANGED <<recipes, ratings, recipe_ingredients>>
          ELSE /\ ratings' = kept_ratings
               /\ recipe_ingredients' = kept_ingredients
               /\ recipes' = [r \in DOMAIN recipes \ {recipe_id} |-> recipes[r]]
               /\ Finish(w, DeleteResponse(req[w], ""))
    /\ UNCHANGED <<calls, successes, findResult, otherVars>>

\* ------------------------------------------- create_recipe / find by ingredients
Range(seq) == {seq[i] : i \in 1..Len(seq)}

Min(a, b) == IF a < b THEN a ELSE b

\* PaginationInfo
Pagination(page, limit, total_items, total_pages) ==
    [page |-> page, limit |-> limit, total_items |-> total_items,
     total_pages |-> total_pages]

NoPagination == Pagination(0, 0, 0, 0)

\* user_id 0 is an anonymous caller (current_user is None)
NoUser == 0
FindCallers == {NoUser, 1}

NoFind == [op |-> "", status |-> 0, ingredient_ids |-> <<>>, user_id |-> NoUser,
           data |-> <<>>, match_count |-> <<>>, invalid_ids |-> {},
           pagination |-> NoPagination]

\* variant: the unknown ids are dropped from the request
InvalidIds_Dropped(ingredient_ids) == {}

\* invalid_ids = set(ingredient_ids) - existing_ids
InvalidIds(ingredient_ids) == Range(ingredient_ids) \ IngredientIds

\* the id lists of the requests; the rows a list creates and the ids it
\* matches with in_() do not depend on its order, so the lists are taken in
\* non-decreasing order (repeated ids included)
IngredientLists(maxLen) ==
    {ingredient_ids \in UNION {[1..n -> IngredientIdInputs] : n \in 1..maxLen} :
        \A i \in 1..(Len(ingredient_ids) - 1) :
           ingredient_ids[i] <= ingredient_ids[i + 1]}

\* create_recipe: one RecipeIngredient row per entry of the request's list
CreateRecipe(ingredient_ids) ==
    /\ Cardinality(DOMAIN recipes) < MaxCreated
    /\ IF InvalidIds(ingredient_ids) # {}
       THEN /\ findResult' = [NoFind EXCEPT !.op = "create", !.status = 400,
                                            !.ingredient_ids = ingredient_ids,
                                            !.invalid_ids = InvalidIds(ingredient_ids)]
            /\ UNCHANGED <<recipes, recipe_ingredients>>
       ELSE LET id == Cardinality(DOMAIN recipes) + 1
            IN /\ recipes' = [r \in DOMAIN recipes \cup {id} |->
                                 IF r = id THEN NewRecipe ELSE recipes[r]]
               /\ recipe_ingredients' = recipe_ingredients \cup
                     {[id |-> <<id, i>>, recipe_id |-> id,
                       ingredient_id |-> ingredient_ids[i]] :
                          i \in 1..Len(ingredient_ids)}
               /\ findResult' = [NoFind EXCEPT !.op = "create", !.status = 201,
                                               !.ingredient_ids = ingredient_ids]
    /\ UNCHANGED <<ratings, rateVars, otherVars>>

\* the subquery: recipes joined with their recipe_ingredients rows whose
\* ingredient is requested, grouped by recipe, count(ingredient_id) per group
MatchingRows(recipe_id, ingredient_ids) ==
    {row \in recipe_ingredients :
        row.recipe_id = recipe_id /\ row.ingredient_id \in Range(ingredient_ids)}

\* variant: a candidate uses every requested ingredient
RecipeMatches_AllRequested(ingredient_ids) ==
    LET cands == {r \in DOMAIN recipes :
                    \A i \in Range(ingredient_ids) :
                       \E row \in MatchingRows(r, ingredient_ids) :
                          row.ingredient_id = i}
    IN [r \in cands |-> Cardinality(MatchingRows(r, ingredient_ids))]

RecipeMatches(ingredient_ids) ==
    LET cands == {r \in DOMAIN recipes : MatchingRows(r, ingredient_ids) # {}}
    IN [r \in cands |-> Cardinality(MatchingRows(r, ingredient_ids))]

\* order_by(desc(match_count)): every order of the candidates with
\* non-increasing match_count; rows of equal match_count come in any order
OrderedByMatchCount(match_count) ==
    LET cands == DOMAIN match_count
        n == Cardinality(cands)
    IN {order \in [1..n -> cands] :
          /\ \A i \in 1..n : \A j \in 1..n : order[i] = order[j] => i = j
          /\ \A i \in 1..n : \A j \in 1..n :
                i < j => match_count[order[i]] >= match_count[order[j]]}

\* the results find_recipes_by_ingredients can return for the ids: 400
\* "Invalid ingredient IDs: {...}" for unknown ids, else the first FindLimit
\* candidates in an order of non-increasing match_count, with the fixed
\* pagination envelope
FindOutcomes(ingredient_ids) ==
    IF InvalidIds(ingredient_ids) # {}
    THEN {[NoFind EXCEPT !.op = "find", !.status = 400,
                         !.ingredient_ids = ingredient_ids,
                         !.invalid_ids = InvalidIds(ingredient_ids)]}
    ELSE LET match_count == RecipeMatches(ingredient_ids)
         IN {LET data == SubSeq(order, 1, Min(FindLimit, Len(order)))
             IN [NoFind EXCEPT
                    !.op = "find", !.status = 200,
                    !.ingredient_ids = ingredient_ids,
                    !.match_count = match_count,
                    !.data = data,
                    !.pagination = Pagination(1, Len(data), Len(data), 1)] :
                order \in OrderedByMatchCount(match_count)}

\* find_recipes_by_ingredients; for an authenticated caller a successful call
\* creates the background task _update_ingredient_popularity
FindRecipes(ingredient_ids, user_id) ==
    /\ (user_id # NoUser /\ InvalidIds(ingredient_ids) = {}) => tasks < MaxTasks
    /\ \E result \in FindOutcomes(ingredient_ids) :
          findResult' = [result EXCEPT !.user_id = user_id]
    /\ tasks' = IF user_id # NoUser /\ InvalidIds(ingredient_ids) = {}
                THEN tasks + 1 ELSE tasks
    /\ UNCHANGED <<recipes, ratings, recipe_ingredients, rateVars, listResult,
                   utilVars>>

\* variant: a failure of the task reaches the response of the request
UpdateIngredientPopularity_Raises ==
    /\ tasks > 0
    /\ tasks' = tasks - 1
    /\ findResult' = [findResult EXCEPT !.status = 500, !.data = <<>>]
    /\ UNCHANGED <<recipes, ratings, recipe_ingredients, rateVars,
                   listResult, utilVars>>

\* the event loop runs a pending _update_ingredient_popularity task: it logs
\* the ingredient ids and catches whatever the logging raises
UpdateIngredientPopularity ==
    /\ tasks > 0
    /\ tasks' = tasks - 1
    /\ UNCHANGED <<recipes, ratings, recipe_ingredients, rateVars, findResult,
                   listResult, utilVars>>

\* ------------------------------------------------------ get_recipes_list
\* a query parameter that is not sent
Absent == ""

\* SortField, SortOrder, ComplexityLevel (models/requests.py)
SortField == {"name", "rating", "prep_time", "created_at"}
SortOrder == {"asc", "desc"}
ComplexityLevel == {"easy", "medium", "hard"}

\* the parameters the list requests are drawn from
PageInputs == 0..MaxPage
LimitInputs == {0, 1, 2, ListLimitMax, ListLimitMax + 1}
ComplexityInputs == {Absent, "easy"}
AuthorIdInputs == {NoUser, 1}
SortByInputs == {Absent, "popularity"} \cup SortField
SortOrderInputs == {Absent} \cup SortOrder

\* the recipes the listed catalogs are made of
RecipeSamples ==
   <<[name |-> "a", preparation_time_minutes |-> 10, complexity_level |-> "easy",
      author_id |-> 1, average_rating |-> 450, total_votes |-> 2, created_at |-> 1],
     [name |-> "b", preparation_time_minutes |-> 10, complexity_level |-> "hard",
      author_id |-> 2, average_rating |-> 0, total_votes |-> 0, created_at |-> 1],
     [name |-> "a", preparation_time_minutes |-> 20, complexity_level |-> "easy",
      author_id |-> 2, average_rating |-> 300, total_votes |-> 1, created_at |-> 2],
     [name |-> "c", preparation_time_minutes |-> 30, complexity_level |-> "easy",
      author_id |-> 1, average_rating |-> 450, total_votes |-> 1, created_at |-> 3]>>

NoQuery == [page |-> 0, limit |-> 0, complexity |-> Absent, authorId |-> NoUser,
            sortBy |-> Absent, sortOrder |-> Absent]

NoList == [status |-> 0, query |-> NoQuery, data |-> <<>>,
           pagination |-> NoPagination]

\* the defaults of the router's Query parameters
RecipeListQuery(page, limit, complexity, authorId, sortBy, sortOrder) ==
    [page |-> page, limit |-> limit, complexity |-> complexity,
     authorId |-> authorId,
     sortBy |-> IF sortBy = Absent THEN "created_at" ELSE sortBy,
     sortOrder |-> IF sortOrder = Absent THEN "desc" ELSE sortOrder]

\* Query(ge=1), Query(ge=1, le=100): checked before the handler runs
QueryParamsValid(query) ==
    /\ query.page >= 1
    /\ query.limit >= 1 /\ query.limit <= ListLimitMax

\* RecipeListQuery(...) validates the enums; its ValidationError is a ValueError
RecipeListQueryValid(query) ==
    /\ query.complexity \in {Absent} \cup ComplexityLevel
    /\ query.sortBy \in SortField
    /\ query.sortOrder \in SortOrder

\* _get_sort_column: the value of the sort column of a recipe
SortColumn(sort_field, recipe) ==
    CASE sort_field = "name" -> recipe.name
      [] sort_field = "rating" -> recipe.average_rating
      [] sort_field = "prep_time" -> recipe.preparation_time_minutes
      [] OTHER -> recipe.created_at

\* names are compared as strings
NameRank(name) == CASE name = "a" -> 1 [] name = "b" -> 2 [] OTHER -> 3

SortKey(sort_field, recipe) ==
    IF sort_field = "name" THEN NameRank(SortColumn(sort_field, recipe))
    ELSE SortColumn(sort_field, recipe)

\* the filters of get_recipes_list
Filtered(query) ==
    {r \in DOMAIN recipes :
        /\ query.complexity # Absent
              => recipes[r].complexity_level = query.complexity
        /\ query.authorId # NoUser => recipes[r].author_id = query.authorId}

\* order_by(desc(column)) / order_by(asc(column)): every order of the rows
\* that follows the column; rows of equal value come in any order
OrderedBy(rows, sort_field, sort_order) ==
    LET n == Cardinality(rows)
    IN {order \in [1..n -> rows] :
          /\ \A i \in 1..n : \A j \in 1..n : order[i] = order[j] => i = j
          /\ \A i \in 1..n : \A j \in 1..n :
                i < j => IF sort_order = "desc"
                         THEN SortKey(sort_field, recipes[order[i]])
                                >= SortKey(sort_field, recipes[order[j]])
                         ELSE SortKey(sort_field, recipes[order[i]])
                                <= SortKey(sort_field, recipes[order[j]])}

\* variant: the page number is taken as 0-indexed
Offset_ZeroIndexed(page, limit) == page * limit

\* offset = (query.page - 1) * query.limit
Offset(page, limit) == (page - 1) * limit

\* total_pages = (total_count + query.limit - 1) // query.limit
TotalPages(total_count, limit) == (total_count + limit - 1) \div limit

\* the responses of GET /recipes for the query
ListOutcomes(query) ==
    IF ~QueryParamsValid(query)
    THEN {[NoList EXCEPT !.status = 422, !.query = query]}
    ELSE IF ~RecipeListQueryValid(query)
    THEN {[NoList EXCEPT !.status = 400, !.query = query]}
    ELSE LET rows == Filtered(query)
             total_count == Cardinality(rows)
             offset == Offset(query.page, query.limit)
             total_pages == TotalPages(total_count, query.limit)
         IN {[NoList EXCEPT
                 !.status = 200, !.query = query,
                 !.data = SubSeq(order, offset + 1,
                                 Min(offset + query.limit, total_count)),
                 !.pagination = Pagination(query.page, query.limit,
                                           total_count, total_pages)] :
               order \in OrderedBy(rows, query.sortBy, query.sortOrder)}

\* GET /recipes: get_recipes and RecipeService.get_recipes_list
GetRecipes(page, limit, complexity, authorId, sortBy, sortOrder) ==
    /\ listResult' \in ListOutcomes(RecipeListQuery(page, limit, complexity,
                                                     authorId, sortBy, sortOrder))
    /\ UNCHANGED <<recipes, ratings, recipe_ingredients, rateVars, findResult,
                   tasks, utilVars>>

\* ------------------------------------------- SlidingWindowRateLimiter
Threads == 1..NumThreads

\* get_client_identifier: "user:<id>" or "ip:<address>"; one window per
\* identifier, shared by the endpoints and their limits
Identifiers == {"user:1", "ip:10.0.0.1"}

\* RateLimitConfig.LIMITS: the limits differ, every window is the same
RateLimits == 1..MaxLimit

CacheKeys == {"ingredients:item:1"}
CacheValues == {1, 2}

NoCall == [pc |-> "idle", op |-> "", identifier |-> "", limit |-> 0, now |-> 0,
           window_start |-> 0, current_count |-> 0, key |-> "", endpoint |-> ""]

NoReturn == [thread |-> 0, op |-> "", identifier |-> "", limit |-> 0, now |-> 0,
             key |-> "", exc |-> "", allowed |-> FALSE, remaining |-> 0,
             reset_time |-> 0, retry_after |-> 0, value |-> 0, endpoint |-> ""]

\* the collaborators as constructed
InitUtil ==
    /\ windows = [i \in Identifiers |-> <<>>]
    /\ last_cleanup = 0
    /\ cache = <<>>
    /\ now = 0
    /\ threads = [t \in Threads |-> NoCall]
    /\ returned = NoReturn
    /\ admitted = [i \in Identifiers |-> <<>>]
    /\ admitted_by = [i \in Identifiers |-> <<>>]
    /\ last_set = <<>>
    /\ ingredients = {}
    /\ caches = [w \in Workers |-> <<>>]

\* while window and window[0] < cutoff_time: window.popleft()
RECURSIVE TrimOld(_, _)
TrimOld(window, cutoff_time) ==
    IF window # <<>> /\ Head(window) < cutoff_time
    THEN TrimOld(Tail(window), cutoff_time)
    ELSE window

\* the oldest clock value a call in flight has read
OldestNow(clock) ==
    LET reads == {clock} \cup {threads[t].now : t \in {u \in Threads :
                                                        threads[u].pc # "idle"}}
    IN CHOOSE m \in reads : \A x \in reads : m <= x

\* the history keeps the admissions that can share a window with a later one
RecentAdmitted(history, clock) ==
    [i \in Identifiers |->
        SelectSeq(history[i], LAMBDA ts : ts >= OldestNow(clock) - WindowSeconds)]

\* the same for the history that keeps the endpoint class of each admission
RecentAdmittedBy(history, clock) ==
    [i \in Identifiers |->
        SelectSeq(history[i],
                  LAMBDA e : e.ts >= OldestNow(clock) - WindowSeconds)]

\* thread t returns from its call
Return(t, result) ==
    /\ threads' = [threads EXCEPT ![t] = NoCall]
    /\ returned' = [result EXCEPT !.thread = t, !.op = threads[t].op,
                                  !.identifier = threads[t].identifier,
                                  !.limit = threads[t].limit,
                                  !.now = threads[t].now,
                                  !.key = threads[t].key,
                                  !.endpoint = threads[t].endpoint]

\* what the collaborators leave alone
storeVars == <<recipes, ratings, recipe_ingredients, rateVars, findResult,
               listResult, tasks, ingredientVars, deployVars>>

\* is_allowed is entered: now = time.time(), window_start, the window
IsAllowed(t, identifier, limit) ==
    /\ threads[t].pc = "idle"
    /\ threads' = [threads EXCEPT ![t] =
                      [NoCall EXCEPT !.pc = "trim", !.op = "is_allowed",
                                     !.identifier = identifier, !.limit = limit,
                                     !.now = now,
                                     !.window_start = now - WindowSeconds]]
    /\ returned' = NoReturn
    /\ UNCHANGED <<windows, last_cleanup, cache, now, admitted, admitted_by, last_set, storeVars>>

\* while window and window[0] < window_start
IsAllowedTrim(t) ==
    /\ threads[t].pc = "trim"
    /\ LET window == windows[threads[t].identifier]
       IN threads' = [threads EXCEPT ![t].pc =
                         IF window # <<>> /\ Head(window) < threads[t].window_start
                         THEN "popleft" ELSE "count"]
    /\ returned' = NoReturn
    /\ UNCHANGED <<windows, last_cleanup, cache, now, admitted, admitted_by, last_set, storeVars>>

\* window.popleft(); on an empty deque it raises IndexError
IsAllowedPopleft(t) ==
    /\ threads[t].pc = "popleft"
    /\ LET identifier == threads[t].identifier
       IN IF windows[identifier] = <<>>
          THEN /\ Return(t, [NoReturn EXCEPT !.exc = "IndexError"])
               /\ UNCHANGED windows
          ELSE /\ windows' = [windows EXCEPT ![identifier] = Tail(@)]
               /\ threads' = [threads EXCEPT ![t].pc = "trim"]
               /\ returned' = NoReturn
    /\ UNCHANGED <<last_cleanup, cache, now, admitted, admitted_by, last_set, storeVars>>

\* variant: the limit is tested with > instead of >=
IsAllowedCount_OffByOne(t) ==
    /\ threads[t].pc = "count"
    /\ LET window == windows[threads[t].identifier]
           current_count == Len(window)
           time_until_reset == IF window # <<>>
                               THEN Head(window) - threads[t].window_start
                               ELSE WindowSeconds
       IN IF current_count > threads[t].limit
          THEN Return(t, [NoReturn EXCEPT
                             !.allowed = FALSE, !.remaining = 0,
                             !.reset_time = threads[t].now + time_until_reset,
                             !.retry_after = time_until_reset])
          ELSE /\ threads' = [threads EXCEPT ![t].pc = "append",
                                             ![t].current_count = current_count]
               /\ returned' = NoReturn
    /\ UNCHANGED <<windows, last_cleanup, cache, now, admitted, admitted_by, last_set, storeVars>>

\* variant: the denied request is recorded in the window as well
IsAllowedCount_RecordsDenied(t) ==
    /\ threads[t].pc = "count"
    /\ LET window == windows[threads[t].identifier]
           current_count == Len(window)
           time_until_reset == IF window # <<>>
                               THEN Head(window) - threads[t].window_start
                               ELSE WindowSeconds
       IN IF current_count >= threads[t].limit
          THEN /\ Return(t, [NoReturn EXCEPT
                                !.allowed = FALSE, !.remaining = 0,
                                !.reset_time = threads[t].now + time_until_reset,
                                !.retry_after = time_until_reset])
               /\ windows' = [windows EXCEPT ![threads[t].identifier] =
                                 Append(@, threads[t].now)]
          ELSE /\ threads' = [threads EXCEPT ![t].pc = "append",
                                             ![t].current_count = current_count]
               /\ returned' = NoReturn
               /\ UNCHANGED windows
    /\ UNCHANGED <<last_cleanup, cache, now, admitted, admitted_by, last_set, storeVars>>

\* current_count = len(window); the request is denied when the limit is reached
IsAllowedCount(t) ==
    /\ threads[t].pc = "count"
    /\ LET window == windows[threads[t].identifier]
           current_count == Len(window)
           time_until_reset == IF window # <<>>
                               THEN Head(window) - threads[t].window_start
                               ELSE WindowSeconds
       IN IF current_count >= threads[t].limit
          THEN Return(t, [NoReturn EXCEPT
                             !.allowed = FALSE, !.remaining = 0,
                             !.reset_time = threads[t].now + time_until_reset,
                             !.retry_after = time_until_reset])
          ELSE /\ threads' = [threads EXCEPT ![t].pc = "append",
                                             ![t].current_count = current_count]
               /\ returned' = NoReturn
    /\ UNCHANGED <<windows, last_cleanup, cache, now, admitted, admitted_by, last_set, storeVars>>

\* _cleanup_old_windows(window_start): old timestamps are dropped from every
\* window and the empty windows are deleted (a deleted window is an empty
\* deque again when it is next looked up in the defaultdict)
CleanupOldWindows(ws, cutoff_time) ==
    [i \in Identifiers |-> TrimOld(ws[i], cutoff_time)]

\* window.append(now), the periodic cleanup, and the answer
IsAllowedAppend(t) ==
    /\ threads[t].pc = "append"
    /\ LET identifier == threads[t].identifier
           appended == [windows EXCEPT ![identifier] = Append(@, threads[t].now)]
           cleanup == threads[t].now - last_cleanup > CleanupInterval
       IN /\ windows' = IF cleanup
                        THEN CleanupOldWindows(appended, threads[t].window_start)
                        ELSE appended
          /\ last_cleanup' = IF cleanup THEN threads[t].now ELSE last_cleanup
          /\ admitted' = [admitted EXCEPT ![identifier] = Append(@, threads[t].now)]
          /\ admitted_by' = [admitted_by EXCEPT ![identifier] =
                                Append(@, [ts |-> threads[t].now,
                                           endpoint |-> threads[t].endpoint])]
          /\ Return(t, [NoReturn EXCEPT
                            !.allowed = TRUE,
                            !.remaining = threads[t].limit
                                            - (threads[t].current_count + 1),
                            !.reset_time = threads[t].now + WindowSeconds,
                            !.retry_after = 0])
    /\ UNCHANGED <<cache, now, last_set, storeVars>>

\* the endpoint classes of the ingredients router
Endpoints == {"ingredients_get", "ingredients_post"}

\* RateLimitConfig.get_limit: the class's requests per window. LIMITS gives
\* ingredients_get 100 and ingredients_post 10, both per 60 s; the model
\* keeps the order of the two limits and the common window (WindowSeconds)
GetLimit(endpoint) == IF endpoint = "ingredients_post" THEN 1 ELSE MaxLimit

\* check_rate_limit of rate_limit_dependency(endpoint): is_allowed is entered
\* with the client's identifier and the limit of the endpoint class
CheckRateLimit(t, identifier, endpoint) ==
    /\ threads[t].pc = "idle"
    /\ threads' = [threads EXCEPT ![t] =
                      [NoCall EXCEPT !.pc = "trim", !.op = "is_allowed",
                                     !.identifier = identifier,
                                     !.limit = GetLimit(endpoint),
                                     !.endpoint = endpoint,
                                     !.now = now,
                                     !.window_start = now - WindowSeconds]]
    /\ returned' = NoReturn
    /\ UNCHANGED <<windows, last_cleanup, cache, now, admitted, admitted_by,
                   last_set, storeVars>>

\* the sets of a history that are less than ttl old at the clock value
Unexpired(history, clock) ==
    LET keys == {k \in DOMAIN history :
                    clock - history[k].set_at < history[k].ttl_seconds}
    IN [k \in keys |-> history[k]]

\* the clock advances
Tick ==
    /\ now < MaxTime
    /\ now' = now + 1
    /\ admitted' = RecentAdmitted(admitted, now + 1)
    /\ admitted_by' = RecentAdmittedBy(admitted_by, now + 1)
    /\ last_set' = Unexpired(last_set, now + 1)
    /\ returned' = NoReturn
    /\ UNCHANGED <<windows, last_cleanup, cache, threads, storeVars>>

\* --------------------------------------------------------- InMemoryCache
\* del self._cache[key]
Without(entries, key) == [k \in DOMAIN entries \ {key} |-> entries[k]]

\* the keys of two ingredients
CacheKeyInputs == CacheKeys \cup {"ingredients:item:2"}

\* the ttl_seconds a set is called with: none, the default, and a longer one
TtlInputs == {0, CacheTtl, CacheTtl + 1}

\* get is entered: if key in self._cache
CacheGet(t, key) ==
    /\ threads[t].pc = "idle"
    /\ IF key \in DOMAIN cache
       THEN /\ threads' = [threads EXCEPT ![t] =
                              [NoCall EXCEPT !.pc = "get_entry", !.op = "get",
                                             !.key = key, !.now = now]]
            /\ returned' = NoReturn
       ELSE /\ threads' = threads
            /\ returned' = [NoReturn EXCEPT !.thread = t, !.op = "get",
                                            !.key = key, !.now = now]
    /\ UNCHANGED <<windows, last_cleanup, cache, now, admitted, admitted_by, last_set, storeVars>>

\* variant: an entry is still returned at the moment it expires
CacheGetEntry_ExpiresInclusive(t) ==
    /\ threads[t].pc = "get_entry"
    /\ LET key == threads[t].key
       IN IF key \notin DOMAIN cache
          THEN Return(t, [NoReturn EXCEPT !.exc = "KeyError"])
          ELSE IF now <= cache[key].expires_at
          THEN Return(t, [NoReturn EXCEPT !.value = cache[key].value])
          ELSE /\ threads' = [threads EXCEPT ![t].pc = "get_del"]
               /\ returned' = NoReturn
    /\ UNCHANGED <<windows, last_cleanup, cache, now, admitted, admitted_by, last_set, storeVars>>

\* entry = self._cache[key]; the value is returned unless the entry has expired
CacheGetEntry(t) ==
    /\ threads[t].pc = "get_entry"
    /\ LET key == threads[t].key
       IN IF key \notin DOMAIN cache
          THEN Return(t, [NoReturn EXCEPT !.exc = "KeyError"])
          ELSE IF now < cache[key].expires_at
          THEN Return(t, [NoReturn EXCEPT !.value = cache[key].value])
          ELSE /\ threads' = [threads EXCEPT ![t].pc = "get_del"]
               /\ returned' = NoReturn
    /\ UNCHANGED <<windows, last_cleanup, cache, now, admitted, admitted_by, last_set, storeVars>>

\* the expired entry is deleted and None is returned
CacheGetDel(t) ==
    /\ threads[t].pc = "get_del"
    /\ LET key == threads[t].key
       IN IF key \notin DOMAIN cache
          THEN /\ Return(t, [NoReturn EXCEPT !.exc = "KeyError"])
               /\ UNCHANGED cache
          ELSE /\ cache' = Without(cache, key)
               /\ Return(t, NoReturn)
    /\ UNCHANGED <<windows, last_cleanup, now, admitted, admitted_by, last_set, storeVars>>

\* set(key, value, ttl_seconds): the entry is stored with its expiry time
CacheSetTtl(t, key, value, ttl_seconds) ==
    /\ threads[t].pc = "idle"
    /\ cache' = [k \in DOMAIN cache \cup {key} |->
                    IF k = key
                    THEN [value |-> value, expires_at |-> now + ttl_seconds]
                    ELSE cache[k]]
    /\ last_set' = Unexpired([k \in DOMAIN last_set \cup {key} |->
                                 IF k = key
                                 THEN [value |-> value, set_at |-> now,
                                       ttl_seconds |-> ttl_seconds]
                                 ELSE last_set[k]], now)
    /\ threads' = threads
    /\ returned' = [NoReturn EXCEPT !.thread = t, !.op = "set", !.key = key,
                                    !.now = now, !.value = value]
    /\ UNCHANGED <<windows, last_cleanup, now, admitted, admitted_by, storeVars>>

\* set with the default ttl
CacheSet(t, key, value) == CacheSetTtl(t, key, value, CacheTtl)

\* delete is entered: if key in self._cache
CacheDelete(t, key) ==
    /\ threads[t].pc = "idle"
    /\ IF key \in DOMAIN cache
       THEN /\ threads' = [threads EXCEPT ![t] =
                              [NoCall EXCEPT !.pc = "delete_del", !.op = "delete",
                                             !.key = key, !.now = now]]
            /\ returned' = NoReturn
            /\ last_set' = last_set
       ELSE /\ threads' = threads
            /\ returned' = [NoReturn EXCEPT !.thread = t, !.op = "delete",
                                            !.key = key, !.now = now]
            /\ last_set' = Without(last_set, key)
    /\ UNCHANGED <<windows, last_cleanup, cache, now, admitted, admitted_by, storeVars>>

\* del self._cache[key]
CacheDeleteDel(t) ==
    /\ threads[t].pc = "delete_del"
    /\ LET key == threads[t].key
       IN /\ last_set' = Without(last_set, key)
          /\ IF key \notin DOMAIN cache
             THEN /\ Return(t, [NoReturn EXCEPT !.exc = "KeyError"])
                  /\ UNCHANGED cache
             ELSE /\ cache' = Without(cache, key)
                  /\ Return(t, NoReturn)
    /\ UNCHANGED <<windows, last_cleanup, now, admitted, admitted_by, storeVars>>

\* clear
CacheClear(t) ==
    /\ threads[t].pc = "idle"
    /\ cache' = <<>>
    /\ last_set' = <<>>
    /\ threads' = threads
    /\ returned' = [NoReturn EXCEPT !.thread = t, !.op = "clear", !.now = now]
    /\ UNCHANGED <<windows, last_cleanup, now, admitted, admitted_by, storeVars>>

\* ------------------------------------------------ the ingredients router
\* the names a POST /ingredients can carry
IngredientNames == {"flour", "salt"}

\* CacheManager.get_ingredients_cache_key: one key per set of query parameters
ListKeys == {"ingredients:list:1", "ingredients:list:2"}

\* InMemoryCache.get as one call: the value of a live entry, else None
Live(entries, key) == key \in DOMAIN entries /\ now < entries[key].expires_at

\* GET /ingredients, handled by worker process w. The handler is a coroutine
\* without an await, so it runs as one step of its process: the process's
\* cache is consulted; on a miss (an expired entry is removed) the list is
\* read from the store and cached with the default ttl. The list is
\* represented by the number of its rows.
GetIngredients(w, key) ==
    /\ IF Live(caches[w], key)
       THEN /\ returned' = [NoReturn EXCEPT !.thread = w, !.op = "get_ingredients",
                                            !.key = key, !.now = now,
                                            !.value = caches[w][key].value]
            /\ caches' = caches
       ELSE /\ returned' = [NoReturn EXCEPT !.thread = w, !.op = "get_ingredients",
                                            !.key = key, !.now = now,
                                            !.value = Cardinality(ingredients)]
            /\ caches' = [caches EXCEPT ![w] =
                              [k \in DOMAIN caches[w] \cup {key} |->
                                  IF k = key
                                  THEN [value |-> Cardinality(ingredients),
                                        expires_at |-> now + CacheTtl]
                                  ELSE caches[w][k]]]
    /\ UNCHANGED <<ingredients, windows, last_cleanup, cache, now, threads,
                   admitted, admitted_by, last_set, recipes, ratings, recipe_ingredients, rateVars,
                   findResult, listResult, tasks, deployVars>>

\* POST /ingredients, handled by worker process w: 409 for a name that exists;
\* else the row is committed and invalidate_ingredient_caches() clears the
\* cache of the process that handled the request
CreateIngredient(w, name) ==
    /\ IF name \in ingredients
       THEN /\ returned' = [NoReturn EXCEPT !.thread = w, !.op = "create_ingredient",
                                            !.now = now, !.exc = "409"]
            /\ UNCHANGED <<ingredients, caches>>
       ELSE /\ ingredients' = ingredients \cup {name}
            /\ caches' = [caches EXCEPT ![w] = <<>>]
            /\ returned' = [NoReturn EXCEPT !.thread = w, !.op = "create_ingredient",
                                            !.now = now]
    /\ UNCHANGED <<windows, last_cleanup, cache, now, threads, admitted, admitted_by,
                   last_set, recipes, ratings, recipe_ingredients, rateVars,
                   findResult, listResult, tasks, deployVars>>

\* the client that was answered 429 waits the Retry-After seconds of the
\* answer and sends the request again: the clock advances by retry_after
\* and check_rate_limit enters is_allowed with the same arguments
RetryAfter(t) ==
    /\ \A u \in Threads : threads[u].pc = "idle"
    /\ returned.op = "is_allowed"
    /\ returned.exc = ""
    /\ ~returned.allowed
    /\ now + returned.retry_after <= MaxTime
    /\ now' = now + returned.retry_after
    /\ admitted' = RecentAdmitted(admitted, now')
    /\ admitted_by' = RecentAdmittedBy(admitted_by, now')
    /\ last_set' = Unexpired(last_set, now')
    /\ threads' = [threads EXCEPT ![t] =
                      [NoCall EXCEPT !.pc = "trim", !.op = "is_allowed_retry",
                                     !.identifier = returned.identifier,
                                     !.limit = returned.limit,
                                     !.endpoint = returned.endpoint,
                                     !.now = now',
                                     !.window_start = now' - WindowSeconds]]
    /\ returned' = NoReturn
    /\ UNCHANGED <<windows, last_cleanup, cache, storeVars>>

\* ------------------------------------------------------------ update_recipe
\* a stored recipe with the one attribute update_recipe is followed on
NamedRecipe ==
    [average_rating |-> 0, total_votes |-> 0, author_id |-> AuthorId, name |-> "a"]

\* UpdateRecipeRequest.name: Optional[str]
NameInputs == {Absent, "b"}

\* UpdateRecipeRequest.ingredients: Optional[List[...]]: not given, or a list
\* (of a known id, of an unknown id)
NoIngredients == [given |-> FALSE, ids |-> <<>>]
IngredientsInputs ==
    {NoIngredients} \cup {[given |-> TRUE, ids |-> ids] : ids \in {<<2>>, <<3>>}}

\* the users who call update_recipe: the author and another user
UpdateCallers == {AuthorId, AuthorId + 1}

\* the router's translation of update_recipe's outcome into a response
UpdateResponse(request, exc) ==
    IF exc = "" THEN
        [req |-> request, status |-> 200, detail |-> "", exc |-> "",
         average_rating |-> 0, total_votes |-> 0]
    ELSE IF exc = "None" THEN
        [req |-> request, status |-> 404,
         detail |-> "Recipe not found or access denied", exc |-> exc,
         average_rating |-> 0, total_votes |-> 0]
    ELSE IF exc = "ValueError" THEN
        [req |-> request, status |-> 400, detail |-> "Invalid ingredient IDs", exc |-> exc,
         average_rating |-> 0, total_votes |-> 0]
    ELSE
        [req |-> request, status |-> 500, detail |-> "Internal server error", exc |-> exc,
         average_rating |-> 0, total_votes |-> 0]

\* the request arrives and the handler runs up to its first statement, the
\* lookup of the recipe; a missing recipe or another user's recipe: None
UpdateRequest(w, recipe_id, user_id, name, ingredient_data) ==
    LET request == [recipe_id |-> recipe_id, user_id |-> user_id, rating |-> 0,
                    name |-> name, ingredients |-> ingredient_data]
    IN /\ calls < MaxCalls
       /\ FreeWorker(w)
       /\ calls' = calls + 1
       /\ IF recipe_id \in DOMAIN recipes /\ recipes[recipe_id].author_id = user_id
          THEN /\ pc' = [pc EXCEPT ![w] = "update"]
               /\ req' = [req EXCEPT ![w] = request]
               /\ session' = [session EXCEPT ![w].recipe = recipes[recipe_id]]
               /\ response' = NoResponse
          ELSE Finish(w, UpdateResponse(request, "None"))
       /\ UNCHANGED <<recipes, ratings, recipe_ingredients, successes, findResult, otherVars>>

\* the RecipeIngredient rows the request adds in place of the recipe's rows
ReplacedIngredients(recipe_id, ingredient_data) ==
    IF ingredient_data.given
    THEN {row \in recipe_ingredients : row.recipe_id # recipe_id} \cup
         {[id |-> <<recipe_id, i>>, recipe_id |-> recipe_id,
           ingredient_id |-> ingredient_data.ids[i]] :
              i \in 1..Len(ingredient_data.ids)}
    ELSE recipe_ingredients

\* variant: the commit writes the recipe back as the lookup loaded it
UpdateCommit_WritesLoaded(w) ==
    /\ pc[w] = "update"
    /\ IF req[w].ingredients.given /\ InvalidIds(req[w].ingredients.ids) # {}
       THEN /\ Finish(w, UpdateResponse(req[w], "ValueError"))
            /\ UNCHANGED <<recipes, recipe_ingredients>>
       ELSE /\ recipes' = [recipes EXCEPT ![req[w].recipe_id] =
                              [session[w].recipe EXCEPT !.name =
                                  IF req[w].name = Absent THEN @ ELSE req[w].name]]
            /\ recipe_ingredients' =
                  ReplacedIngredients(req[w].recipe_id, req[w].ingredients)
            /\ Finish(w, UpdateResponse(req[w], ""))
    /\ UNCHANGED <<ratings, calls, successes, findResult, otherVars>>

\* the fields given are assigned, the ingredients given are validated and
\* replace the recipe's rows, db.commit(): the UPDATE of the recipe sets the
\* attributes the handler assigned and no other column; unknown ingredient
\* ids raise ValueError and the transaction is rolled back
UpdateCommit(w) ==
    /\ pc[w] = "update"
    /\ IF req[w].ingredients.given /\ InvalidIds(req[w].ingredients.ids) # {}
       THEN /\ Finish(w, UpdateResponse(req[w], "ValueError"))
            /\ UNCHANGED <<recipes, recipe_ingredients>>
       ELSE /\ recipes' = [recipes EXCEPT ![req[w].recipe_id].name =
                              IF req[w].name = Absent THEN @ ELSE req[w].name]
            /\ recipe_ingredients' =
                  ReplacedIngredients(req[w].recipe_id, req[w].ingredients)
            /\ Finish(w, UpdateResponse(req[w], ""))
    /\ UNCHANGED <<ratings, calls, successes, findResult, otherVars>>

\* ---------------------------------------------------------- specification
Pairs == Users \X RecipeIds

\* nothing listed, no background task, the collaborators as constructed;
\* DATABASE_URL defaults to SQLite, and the engine is created without
\* PRAGMA foreign_keys: the references are not enforced
InitOther ==
    /\ listResult = NoList
    /\ tasks = 0
    /\ foreign_keys = FALSE
    /\ InitUtil

Init ==
    /\ recipes = [r \in RecipeIds |-> NewRecipe]
    /\ ratings = {}
    /\ recipe_ingredients = {}
    /\ pc = [w \in Workers |-> "idle"]
    /\ req = [w \in Workers |-> NoReq]
    /\ session = [w \in Workers |-> NoSession]
    /\ response = NoResponse
    /\ calls = 0
    /\ successes = [p \in Pairs |-> 0]
    /\ findResult = NoFind
    /\ InitOther

Next ==
    \/ \E w \in Workers, recipe_id \in RecipeIdInputs, user_id \in Users,
          rating \in RatingInputs : RateRequest(w, recipe_id, user_id, rating)
    \/ \E w \in Workers : RatePrecheck(w)
    \/ \E w \in Workers : RateRecount(w)
    \/ \E w \in Workers : RateCommit(w)

Spec == Init /\ [][Next]_vars

\* the same requests, with store failures
NextFault ==
    \/ Next
    \/ \E w \in Workers, recipe_id \in RecipeIdInputs, user_id \in Users,
          rating \in RatingInputs : RateLookupError(w, recipe_id, user_id, rating)
    \/ \E w \in Workers : RateStoreError(w)

SpecFault == Init /\ [][NextFault]_vars

\* recipes written by AuthorId are rated and deleted by the author and by
\* other users, on a database that enforces foreign keys or on one that
\* does not
InitDelete ==
    /\ recipes = [r \in RecipeIds |-> OwnedRecipe]
    /\ ratings = {}
    /\ recipe_ingredients = OwnedIngredients
    /\ pc = [w \in Workers |-> "idle"]
    /\ req = [w \in Workers |-> NoReq]
    /\ session = [w \in Workers |-> NoSession]
    /\ response = NoResponse
    /\ calls = 0
    /\ successes = [p \in Raters \X RecipeIds |-> 0]
    /\ findResult = NoFind
    /\ listResult = NoList
    /\ tasks = 0
    /\ foreign_keys \in BOOLEAN
    /\ InitUtil

NextDelete ==
    \/ \E w \in Workers, recipe_id \in RecipeIdInputs, user_id \in Raters,
          rating \in RatingInputs : RateRequest(w, recipe_id, user_id, rating)
    \/ \E w \in Workers : RatePrecheck(w)
    \/ \E w \in Workers : RateRecount(w)
    \/ \E w \in Workers : RateCommit(w)
    \/ \E w \in Workers, recipe_id \in RecipeIdInputs, user_id \in Raters :
          DeleteRequest(w, recipe_id, user_id)
    \/ \E w \in Workers : DeleteCascade(w)
    \/ \E w \in Workers : DeleteCommit(w)

SpecDelete == InitDelete /\ [][NextDelete]_vars

\* a recipe of AuthorId is rated and updated while other recipes are created
InitUpdate ==
    /\ recipes = [r \in RecipeIds |-> NamedRecipe]
    /\ ratings = {}
    /\ recipe_ingredients = OwnedIngredients
    /\ pc = [w \in Workers |-> "idle"]
    /\ req = [w \in Workers |-> NoReq]
    /\ session = [w \in Workers |-> NoSession]
    /\ response = NoResponse
    /\ calls = 0
    /\ successes = [p \in Pairs |-> 0]
    /\ findResult = NoFind
    /\ InitOther

NextUpdate ==
    \/ \E w \in Workers, recipe_id \in RecipeIds, user_id \in Users :
          RateRequest(w, recipe_id, user_id, RatingMax)
    \/ \E w \in Workers : RatePrecheck(w)
    \/ \E w \in Workers : RateRecount(w)
    \/ \E w \in Workers : RateCommit(w)
    \/ \E w \in Workers, recipe_id \in RecipeIds, user_id \in UpdateCallers,
          name \in NameInputs, ingredient_data \in IngredientsInputs :
          UpdateRequest(w, recipe_id, user_id, name, ingredient_data)
    \/ \E w \in Workers : UpdateCommit(w)
    \/ CreateRecipe(<<1>>)

SpecUpdate == InitUpdate /\ [][NextUpdate]_vars

\* the catalog: recipes are created and searched by ingredients
InitFind ==
    /\ recipes = <<>>
    /\ ratings = {}
    /\ recipe_ingredients = {}
    /\ pc = [w \in Workers |-> "idle"]
    /\ req = [w \in Workers |-> NoReq]
    /\ session = [w \in Workers |-> NoSession]
    /\ response = NoResponse
    /\ calls = 0
    /\ successes = [p \in Pairs |-> 0]
    /\ findResult = NoFind
    /\ InitOther

\* recipes are created; the catalog is searched with some request, and the
\* same request is repeated; the background tasks run at any time
NextFind ==
    \/ \E ingredient_ids \in IngredientLists(MaxRecipeIngredients) :
          CreateRecipe(ingredient_ids)
    \/ /\ findResult.op # "find"
       /\ \E ingredient_ids \in IngredientLists(MaxQueryLen),
             user_id \in FindCallers : FindRecipes(ingredient_ids, user_id)
    \/ /\ findResult.op = "find"
       /\ FindRecipes(findResult.ingredient_ids, findResult.user_id)
    \/ UpdateIngredientPopularity

SpecFind == InitFind /\ [][NextFind]_vars

\* the catalogs of up to MaxListed recipes (the order in which the recipes
\* of a catalog were created does not matter to a listing)
Catalogs ==
    LET picks == UNION {[1..n -> DOMAIN RecipeSamples] : n \in 0..MaxListed}
        sorted == {pick \in picks :
                     \A i \in DOMAIN pick : \A j \in DOMAIN pick :
                        i < j => pick[i] <= pick[j]}
    IN {[r \in DOMAIN pick |-> RecipeSamples[pick[r]]] : pick \in sorted}

InitList ==
    /\ recipes \in Catalogs
    /\ ratings = {}
    /\ recipe_ingredients = {}
    /\ pc = [w \in Workers |-> "idle"]
    /\ req = [w \in Workers |-> NoReq]
    /\ session = [w \in Workers |-> NoSession]
    /\ response = NoResponse
    /\ calls = 0
    /\ successes = [p \in Pairs |-> 0]
    /\ findResult = NoFind
    /\ InitOther

\* a catalog is listed with some query and the request is repeated with the
\* same arguments; it is searched for an ingredient no recipe uses
NextList ==
    \/ /\ listResult = NoList
       /\ \E page \in PageInputs, limit \in LimitInputs,
             complexity \in ComplexityInputs, authorId \in AuthorIdInputs,
             sortBy \in SortByInputs, sortOrder \in SortOrderInputs :
             GetRecipes(page, limit, complexity, authorId, sortBy, sortOrder)
    \/ /\ listResult # NoList
       /\ LET query == listResult.query
          IN GetRecipes(query.page, query.limit, query.complexity,
                        query.authorId, query.sortBy, query.sortOrder)
    \/ FindRecipes(<<1>>, NoUser)

SpecList == InitList /\ [][NextList]_vars

\* a catalog is listed with some query, and then page by page with the same
\* filters, sort and limit
NextPages ==
    \/ /\ listResult = NoList
       /\ \E page \in PageInputs, limit \in LimitInputs,
             complexity \in ComplexityInputs, authorId \in AuthorIdInputs,
             sortBy \in SortByInputs, sortOrder \in SortOrderInputs :
             GetRecipes(page, limit, complexity, authorId, sortBy, sortOrder)
    \/ /\ listResult # NoList
       /\ LET query == listResult.query
          IN \E page \in PageInputs :
                GetRecipes(page, query.limit, query.complexity,
                           query.authorId, query.sortBy, query.sortOrder)

SpecPages == InitList /\ [][NextPages]_vars

\* the rate limiter called by one request at a time
NextLimiter ==
    \/ \E t \in Threads, identifier \in Identifiers, limit \in RateLimits :
          /\ \A u \in Threads : threads[u].pc = "idle"
          /\ IsAllowed(t, identifier, limit)
    \/ \E t \in Threads : IsAllowedTrim(t)
    \/ \E t \in Threads : IsAllowedPopleft(t)
    \/ \E t \in Threads : IsAllowedCount(t)
    \/ \E t \in Threads : IsAllowedAppend(t)
    \/ Tick

SpecLimiter == Init /\ [][NextLimiter]_vars

\* the rate limit dependency of the endpoints, called by one request at a
\* time; a client that was denied may retry after the time it was told
NextRateLimit ==
    \/ \E t \in Threads, identifier \in Identifiers, endpoint \in Endpoints :
          /\ \A u \in Threads : threads[u].pc = "idle"
          /\ CheckRateLimit(t, identifier, endpoint)
    \/ \E t \in Threads : IsAllowedTrim(t)
    \/ \E t \in Threads : IsAllowedPopleft(t)
    \/ \E t \in Threads : IsAllowedCount(t)
    \/ \E t \in Threads : IsAllowedAppend(t)
    \/ \E t \in Threads : RetryAfter(t)
    \/ Tick

SpecRateLimit == Init /\ [][NextRateLimit]_vars

\* the rate limiter and the cache called by concurrent threads
NextThreads ==
    \/ \E t \in Threads, limit \in RateLimits : IsAllowed(t, "user:1", limit)
    \/ \E t \in Threads : IsAllowedTrim(t)
    \/ \E t \in Threads : IsAllowedPopleft(t)
    \/ \E t \in Threads : IsAllowedCount(t)
    \/ \E t \in Threads : IsAllowedAppend(t)
    \/ \E t \in Threads, key \in CacheKeys : CacheGet(t, key)
    \/ \E t \in Threads : CacheGetEntry(t)
    \/ \E t \in Threads : CacheGetDel(t)
    \/ \E t \in Threads, key \in CacheKeys, value \in CacheValues :
          CacheSet(t, key, value)
    \/ \E t \in Threads, key \in CacheKeys : CacheDelete(t, key)
    \/ \E t \in Threads : CacheDeleteDel(t)
    \/ \E t \in Threads : CacheClear(t)
    \/ Tick

SpecThreads == Init /\ [][NextThreads]_vars

\* the cache called by one request at a time
NextCache ==
    \/ /\ \A u \in Threads : threads[u].pc = "idle"
       /\ \/ \E t \in Threads, key \in CacheKeyInputs : CacheGet(t, key)
          \/ \E t \in Threads, key \in CacheKeyInputs, value \in CacheValues,
                ttl_seconds \in TtlInputs : CacheSetTtl(t, key, value, ttl_seconds)
          \/ \E t \in Threads, key \in CacheKeyInputs : CacheDelete(t, key)
          \/ \E t \in Threads : CacheClear(t)
    \/ \E t \in Threads : CacheGetEntry(t)
    \/ \E t \in Threads : CacheGetDel(t)
    \/ \E t \in Threads : CacheDeleteDel(t)
    \/ Tick

SpecCache == Init /\ [][NextCache]_vars

\* the ingredients endpoints served by the worker processes
NextIngredients ==
    \/ \E w \in Workers, key \in ListKeys : GetIngredients(w, key)
    \/ \E w \in Workers, name \in IngredientNames : CreateIngredient(w, name)
    \/ Tick

SpecIngredients == Init /\ [][NextIngredients]_vars

\* ------------------------------------------------------------ properties
InFlight(w) == pc[w] \in {"precheck", "recount", "commit"}

PairOf(request) == <<request.user_id, request.recipe_id>>

\* worker w answers its request in this step
Answers(w) == InFlight(w) /\ pc'[w] = "idle" /\ response'.req = req[w]

\* avg (in hundredths) is sum / n rounded to two decimals
IsRoundedMean(avg, sum, n) ==
    /\ n > 0
    /\ 2 * (avg * n - 100 * sum) <= n
    /\ 2 * (100 * sum - avg * n) <= n

\* C1 (as claimed): for every recipe total_votes is the number of its rating
\* rows and average_rating is their mean rounded to two decimals; a recipe
\* without ratings has total_votes 0 and average_rating 0.0.
C1_RatingInvariant ==
    \A r \in DOMAIN recipes :
        LET rows == RatingsOf(r)
        IN /\ recipes[r].total_votes = Cardinality(rows)
           /\ IF rows = {}
              THEN recipes[r].average_rating = 0
              ELSE IsRoundedMean(recipes[r].average_rating, SumRatings(rows),
                                 Cardinality(rows))

\* C2: for every (user, recipe) pair at most one Rate call is answered 200,
\* and whenever a Rate call for the pair is answered (200 or not), exactly
\* one call for the pair has been answered 200: when the last of N concurrent
\* calls is answered there was one success, not none and not two.
C2_ExactlyOneSuccess ==
    /\ [](\A p \in Pairs : successes[p] <= 1)
    /\ [][\A w \in Workers :
            Answers(w) => successes'[PairOf(req[w])] = 1]_vars

\* two calls for one pair both passed the pre-check; one committed, the
\* other one was rejected by the constraint, and no call is left in flight
C2_Witness ==
    /\ response.exc = "IntegrityError"
    /\ successes[PairOf(response.req)] = 1
    /\ \A w \in Workers : ~InFlight(w)

\* C3 (as claimed): the Rate call whose insert is rejected by the uniqueness
\* constraint is answered with the Conflict of the pre-check.
C3_RaceLoserGetsConflict ==
    response.exc = "IntegrityError"
        => /\ response.status = 409
           /\ response.detail = "User has already rated this recipe"

\* C4: the recipe_ratings table never holds two rows for one (user, recipe).
C4_OneRowPerPair ==
    \A a \in ratings : \A b \in ratings :
        (a.user_id = b.user_id /\ a.recipe_id = b.recipe_id) => a = b

\* a second insert for a rated pair was attempted and the table still holds
\* the single row of the pair, next to the row of another user
C4_Witness ==
    /\ response.exc = "IntegrityError"
    /\ Cardinality(ExistingRating(response.req.recipe_id, response.req.user_id)) = 1
    /\ Cardinality(ratings) >= 2

\* the store changes in this step exactly by one committed rating of worker w:
\* one new row for its request together with the recipe's two derived fields
CommittedBy(w) ==
    /\ pc[w] = "commit"
    /\ Answers(w)
    /\ response'.status = 200
    /\ \E row \in ratings' :
          /\ row \notin ratings
          /\ ratings' = ratings \cup {row}
          /\ row.user_id = req[w].user_id
          /\ row.recipe_id = req[w].recipe_id
          /\ row.rating = req[w].rating
    /\ recipes' = [recipes EXCEPT ![req[w].recipe_id] =
                      [average_rating |-> session[w].new_average,
                       total_votes |-> session[w].total_ratings]]

C6_DuplicateRejected ==
    [][\A w \in Workers :
         /\ (/\ pc[w] = "idle" /\ pc'[w] = "precheck"
             /\ ExistingRating(req'[w].recipe_id, req'[w].user_id) # {})
               => (ratings' = ratings /\ recipes' = recipes)
         /\ (/\ pc[w] = "precheck"
             /\ ExistingRating(req[w].recipe_id, req[w].user_id) # {}
             /\ pc'[w] # pc[w])
               => /\ ratings' = ratings /\ recipes' = recipes
                  /\ Answers(w)
                  /\ response'.status = 409
                  /\ response'.detail = "User has already rated this recipe"]_vars

\* users 1 and 2 rated recipe 1 with 5 and 1, then user 1 tried again:
\* 409, the average is still 3.0 and the votes are still 2
C6_Witness ==
    /\ response.req.user_id = 1 /\ response.req.recipe_id = 1
    /\ response.status = 409
    /\ {<<row.user_id, row.recipe_id, row.rating>> : row \in ratings}
          = {<<1, 1, 5>>, <<2, 1, 1>>}
    /\ recipes[1] = [average_rating |-> 300, total_votes |-> 2]

C8_MissingRecipe ==
    /\ [](\A w \in Workers : InFlight(w) => req[w].recipe_id \in DOMAIN recipes)
    /\ [][(/\ calls' # calls
           /\ pc' = pc
           /\ RateRecipeRequest(response'.req.rating)
           /\ response'.req.recipe_id \notin DOMAIN recipes)
             => /\ response'.status = 404
                /\ response'.detail = "Recipe not found"
                /\ ratings' = ratings /\ recipes' = recipes]_vars

\* a Rate call for the unknown recipe was answered 404 next to committed
\* ratings
C8_Witness ==
    /\ response.req.recipe_id \notin DOMAIN recipes
    /\ response.req.rating = 5
    /\ response.status = 404
    /\ ratings # {}

\* C9: a request with a rating outside [1,5] (0, 6) is answered 422 when it
\* arrives, whatever recipe it names, and never reaches the handler; a
\* request with a rating within [1,5] (1, 5) is passed on to the handler
\* (which looks the recipe up); the arrival of a request changes no rating
\* row and no recipe, and every stored rating is within [1,5].
C9_RatingBounds ==
    /\ [](\A w \in Workers :
            InFlight(w) => (req[w].rating >= 1 /\ req[w].rating <= 5))
    /\ [](\A row \in ratings : row.rating >= 1 /\ row.rating <= 5)
    /\ [][calls' # calls
            => /\ ratings' = ratings /\ recipes' = recipes
               /\ \/ \E w \in Workers :
                        /\ pc[w] = "idle" /\ pc'[w] = "precheck"
                        /\ req'[w].rating >= 1 /\ req'[w].rating <= 5
                        /\ response' = NoResponse
                  \/ /\ pc' = pc
                     /\ response'.status = 404
                     /\ response'.req.rating >= 1 /\ response'.req.rating <= 5
                  \/ /\ pc' = pc
                     /\ response'.status = 422
                     /\ (response'.req.rating < 1 \/ response'.req.rating > 5)]_vars

\* the ratings 1 and 5 were accepted and stored and a request with rating 0
\* was answered 422
C9_Witness ==
    /\ {row.rating : row \in ratings} = {1, 5}
    /\ response.req.rating = 0
    /\ response.status = 422

\* the number of distinct requested ingredients the recipe uses
DistinctMatches(recipe_id, ingredient_ids) ==
    Cardinality({i \in Range(ingredient_ids) :
                    \E row \in recipe_ingredients :
                        row.recipe_id = recipe_id /\ row.ingredient_id = i})

\* C10 (as claimed): the match count of every candidate is the number of
\* distinct requested ingredient ids it uses, and the result is ranked by it:
\* a recipe with fewer distinct requested ingredients never precedes one
\* with more.
C10_DistinctMatchCount ==
    (findResult.op = "find" /\ findResult.status = 200)
        => /\ \A r \in DOMAIN findResult.match_count :
                findResult.match_count[r]
                    = DistinctMatches(r, findResult.ingredient_ids)
           /\ \A i \in 1..Len(findResult.data) : \A j \in 1..Len(findResult.data) :
                i < j => DistinctMatches(findResult.data[i], findResult.ingredient_ids)
                          >= DistinctMatches(findResult.data[j], findResult.ingredient_ids)

\* the recipes with at least one recipe_ingredients row of a requested ingredient
Candidates(ingredient_ids) ==
    {r \in DOMAIN recipes :
        \E row \in recipe_ingredients :
            row.recipe_id = r /\ row.ingredient_id \in Range(ingredient_ids)}

\* C11 (as claimed): a successful search returns at most 50 recipes in an
\* order of non-increasing match count (the number of distinct requested
\* ingredients a recipe uses: A with {x,y} precedes B with {x}), and no
\* candidate left out has a higher match count than a returned one.
C11_RankedAndTruncated ==
    (findResult.op = "find" /\ findResult.status = 200)
        => LET ids == findResult.ingredient_ids
               data == findResult.data
           IN /\ Len(data) <= FindLimit
              /\ \A j \in 2..Len(data) :
                    DistinctMatches(data[j - 1], ids) >= DistinctMatches(data[j], ids)
              /\ \A r \in Candidates(ids) \ Range(data) : \A i \in 1..Len(data) :
                    DistinctMatches(r, ids) <= DistinctMatches(data[i], ids)

C13_ExactlyTheCandidates ==
    (findResult.op = "find" /\ Range(findResult.ingredient_ids) \subseteq IngredientIds)
        => /\ findResult.status = 200
           /\ Cardinality(Candidates(findResult.ingredient_ids)) <= FindLimit
                 => /\ Range(findResult.data) = Candidates(findResult.ingredient_ids)
                    /\ Len(findResult.data)
                          = Cardinality(Candidates(findResult.ingredient_ids))

\* a search returned a recipe that uses a requested ingredient next to
\* another one and left out a recipe that uses no requested ingredient
C13_Witness ==
    /\ findResult.op = "find"
    /\ findResult.status = 200
    /\ \E r \in Range(findResult.data) :
          \E row \in recipe_ingredients :
             /\ row.recipe_id = r
             /\ row.ingredient_id \notin Range(findResult.ingredient_ids)
    /\ DOMAIN recipes \ Range(findResult.data) # {}

C15_RepeatableReads ==
    [][/\ (/\ listResult.status = 200 /\ listResult'.status = 200
           /\ listResult'.query = listResult.query
           /\ recipes' = recipes)
            => listResult' = listResult
       /\ (/\ findResult.op = "find" /\ findResult'.op = "find"
           /\ findResult'.ingredient_ids = findResult.ingredient_ids
           /\ recipes' = recipes /\ recipe_ingredients' = recipe_ingredients)
            => findResult'.data = findResult.data]_vars

\* the recipes that pass the filters of the query
Matching(query) ==
    {r \in DOMAIN recipes :
        /\ query.complexity = Absent \/ recipes[r].complexity_level = query.complexity
        /\ query.authorId = NoUser \/ recipes[r].author_id = query.authorId}

\* C16: a successful List with page p >= 1 and limit L in [1,100] reports
\* total_items = the number of recipes that pass the filters and
\* total_pages = ceil(total_items / L) (0 for no recipe), and its items are
\* the positions (p-1)*L+1 .. p*L of the filtered recipes in an order that
\* follows the sort column.
C16_Pagination ==
    listResult.status = 200
        => LET query == listResult.query
               total == Cardinality(Matching(query))
               first == (query.page - 1) * query.limit + 1
               last == query.page * query.limit
               pages == listResult.pagination.total_pages
           IN /\ query.page >= 1
              /\ query.limit >= 1 /\ query.limit <= 100
              /\ listResult.pagination.page = query.page
              /\ listResult.pagination.limit = query.limit
              /\ listResult.pagination.total_items = total
              /\ pages * query.limit >= total
              /\ pages = 0 \/ (pages - 1) * query.limit < total
              /\ total = 0 => pages = 0
              /\ Len(listResult.data)
                    = Cardinality({k \in first..last : k <= total})
              /\ \E order \in OrderedBy(Matching(query), query.sortBy,
                                          query.sortOrder) :
                    \A k \in 1..Len(listResult.data) :
                       listResult.data[k] = order[first + k - 1]

\* page 2 with limit 2 over exactly 3 recipes: 1 item, total_pages 2
C16_Witness ==
    /\ listResult.status = 200
    /\ listResult.query.page = 2
    /\ listResult.query.limit = 2
    /\ listResult.pagination.total_items = 3
    /\ listResult.pagination.total_pages = 2
    /\ Len(listResult.data) = 1

\* C17 (as claimed): a List request with valid page, limit, filter and order
\* succeeds whatever its sort field is; its items follow the requested sort
\* field in the requested direction, and follow created_at descending when
\* the sort field is unknown or absent.
C17_SortWithFallback ==
    (/\ listResult # NoList
     /\ QueryParamsValid(listResult.query)
     /\ listResult.query.complexity \in {Absent} \cup ComplexityLevel
     /\ listResult.query.sortOrder \in SortOrder)
        => LET query == listResult.query
               data == listResult.data
               field == IF query.sortBy \in SortField THEN query.sortBy
                        ELSE "created_at"
               order == IF query.sortBy \in SortField THEN query.sortOrder
                        ELSE "desc"
           IN /\ listResult.status = 200
              /\ \A j \in 2..Len(data) :
                    IF order = "desc"
                    THEN SortKey(field, recipes[data[j - 1]])
                           >= SortKey(field, recipes[data[j]])
                    ELSE SortKey(field, recipes[data[j - 1]])
                           <= SortKey(field, recipes[data[j]])

\* C18 (as claimed): a List and a search by ingredients that both match
\* nothing report the same total_pages.
C18_SameTotalPagesWhenEmpty ==
    (/\ listResult.status = 200
     /\ listResult.pagination.total_items = 0
     /\ findResult.op = "find" /\ findResult.status = 200
     /\ findResult.data = <<>>)
        => listResult.pagination.total_pages = findResult.pagination.total_pages

\* thread t returns from is_allowed in this step
ReturnsFromIsAllowed(t) ==
    /\ threads[t].op = "is_allowed"
    /\ threads[t].pc # "idle"
    /\ threads'[t].pc = "idle"

\* the admissions of a history that are not older than a window start
AdmittedSince(history, window_start) ==
    Len(SelectSeq(history, LAMBDA ts : ts >= window_start))

\* C19: called by one request at a time, is_allowed never fails; a request
\* it admits is, with the requests admitted to its identifier in the window
\* that ends with it, at most the limit-th, and its remaining is the limit
\* minus that number; a request it denies finds at least limit admitted
\* requests in its window and is told remaining = 0.
C19_SlidingWindow ==
    [][\A t \in Threads :
          ReturnsFromIsAllowed(t) =>
             LET identifier == threads[t].identifier
                 limit == threads[t].limit
                 window_start == threads[t].now - WindowSeconds
             IN /\ returned'.exc = ""
                /\ IF returned'.allowed
                   THEN /\ AdmittedSince(admitted'[identifier], window_start)
                             <= limit
                        /\ returned'.remaining
                             = limit - AdmittedSince(admitted'[identifier],
                                                     window_start)
                   ELSE /\ AdmittedSince(admitted[identifier], window_start)
                             >= limit
                        /\ returned'.remaining = 0]_vars

\* a request was denied at the highest limit after the window had moved past
\* the first admissions
C19_Witness ==
    /\ returned.op = "is_allowed"
    /\ returned.exc = ""
    /\ ~returned.allowed
    /\ returned.limit = MaxLimit
    /\ returned.now > WindowSeconds
    /\ AdmittedSince(admitted[returned.identifier],
                     returned.now - WindowSeconds) = MaxLimit

\* C20 (as claimed): under concurrent calls no call into the rate limiter or
\* the cache fails, an admitted request is at most the limit-th admitted to
\* its identifier in its window, and a get returns the value the key holds.
C20_SerialBehaviour ==
    [][/\ returned'.exc = ""
       /\ \A t \in Threads :
             (ReturnsFromIsAllowed(t) /\ returned'.allowed)
                => AdmittedSince(admitted'[threads[t].identifier],
                                 threads[t].now - WindowSeconds)
                     <= threads[t].limit
       /\ (returned'.op = "get" /\ returned'.value # 0)
             => /\ returned'.key \in DOMAIN cache
                /\ cache[returned'.key].value = returned'.value]_vars

\* C20, the admission part alone: concurrent calls admit no more than limit
\* requests of an identifier within a window.
C20_NoOverAdmission ==
    [][\A t \in Threads :
          (ReturnsFromIsAllowed(t) /\ returned'.allowed)
             => AdmittedSince(admitted'[threads[t].identifier],
                              threads[t].now - WindowSeconds)
                  <= threads[t].limit]_vars

\* C21 (as claimed): a GET of the ingredient list is never answered with a
\* list computed before a create_ingredient that has completed, with its
\* invalidation: the answer holds every row the store holds.
C21_NoStaleList ==
    [][returned'.op = "get_ingredients"
          => returned'.value = Cardinality(ingredients)]_vars

\* C22: called by one request at a time, get(key) never fails; it returns
\* the value of the latest set(key, value, ttl) when less than ttl has passed
\* since that set and no delete(key) or clear() came after it, and None
\* otherwise; when it returns None the key holds no entry any more.
C22_GetWithinTtl ==
    [][returned'.op = "get"
          => LET key == returned'.key
             IN /\ returned'.exc = ""
                /\ returned'.value = IF key \in DOMAIN last_set
                                     THEN last_set[key].value ELSE 0
                /\ returned'.value = 0 => key \notin DOMAIN cache']_vars

\* a get returned the value of a set made at an earlier clock value
C22_Witness ==
    /\ returned.op = "get"
    /\ returned.value # 0
    /\ returned.key \in DOMAIN last_set
    /\ last_set[returned.key].set_at < now
\* C23: deleting a recipe deletes all of its RecipeRating and RecipeIngredient
\* rows: in every reachable state, also after a delete_recipe that interleaves
\* with a Rate call on the same recipe, no rating row and no ingredient
\* association references a recipe that no longer exists
C23_NoOrphanRows ==
    \A row \in ratings \cup recipe_ingredients : row.recipe_id \in DOMAIN recipes

\* on a database that enforces foreign keys no row is left without its recipe
C23_EnforcedNoOrphanRows == foreign_keys => C23_NoOrphanRows

\* C25: users cannot rate their own recipes: no RecipeRating row is held by the
\* author of the recipe it rates
C25_NoOwnRating ==
    \A row \in ratings :
       row.recipe_id \in DOMAIN recipes =>
          row.user_id # recipes[row.recipe_id].author_id

\* C26: a recipe's committed total_votes never decreases: every step leaves
\* the total_votes of a recipe greater than or equal to the value before it
C26_TotalVotesMonotonic ==
    [][\A r \in DOMAIN recipes \cap DOMAIN recipes' :
          recipes'[r].total_votes >= recipes[r].total_votes]_vars
\* the two rating-derived fields of a recipe
RatingFields(recipe) == <<recipe.average_rating, recipe.total_votes>>

\* the step is the commit of a Rate call on recipe r, answered 200
RateCommitted(r) ==
    \E w \in Workers :
       /\ pc[w] = "commit"
       /\ req[w].recipe_id = r
       /\ response' = RateResponse(req[w], "", "", session[w].new_average,
                                   session[w].total_ratings)

\* C24: average_rating and total_votes are changed only by rate_recipe: a step
\* that changes either field of a recipe is the commit of a Rate call on it
\* (update_recipe leaves both unchanged whatever it replaces), and a recipe
\* create_recipe adds has average_rating 0.0 and total_votes 0
C24_RatingFieldsFrame ==
    [][/\ \A r \in DOMAIN recipes \cap DOMAIN recipes' :
            RatingFields(recipes'[r]) # RatingFields(recipes[r]) => RateCommitted(r)
       /\ \A r \in DOMAIN recipes' \ DOMAIN recipes :
            RatingFields(recipes'[r]) = <<0, 0>>]_vars

\* a recipe that was rated has been renamed by update_recipe, its ingredient
\* rows replaced, and another recipe has been created
C24_Witness ==
    /\ \E r \in DOMAIN recipes :
          /\ recipes[r].total_votes > 0
          /\ recipes[r].name = "b"
          /\ \A row \in recipe_ingredients :
                row.recipe_id = r => row.ingredient_id = 2
    /\ Cardinality(DOMAIN recipes) > Cardinality(RecipeIds)
    /\ response.status = 200
    /\ response.req.rating = 0
\* C27: when is_allowed denies a request and reports retry_after = r, the
\* request repeated r seconds after the denial by the same identifier with
\* the same limit and window, with no other request in between, is admitted
C27_RetryAdmitted ==
    (returned.op = "is_allowed_retry" /\ returned.exc = "") => returned.allowed

\* the admissions of a history to an endpoint class since a window start
AdmittedAs(history, endpoint, window_start) ==
    Len(SelectSeq(history,
                  LAMBDA e : e.endpoint = endpoint /\ e.ts >= window_start))

\* C28: admission is accounted per endpoint class: a request that is denied
\* finds at least the limit of its class admitted to its identifier, under
\* its own class, in its window (the requests admitted under another class
\* do not count)
C28_PerEndpointAccounting ==
    [][\A t \in Threads :
          (/\ threads[t].endpoint # ""
           /\ threads[t].pc # "idle"
           /\ threads'[t].pc = "idle"
           /\ returned'.exc = ""
           /\ ~returned'.allowed)
          => AdmittedAs(admitted_by[threads[t].identifier], threads[t].endpoint,
                        threads[t].now - WindowSeconds) >= threads[t].limit]_vars
\* the step drops, for a call in flight, the oldest timestamp of its
\* identifier's window, which has left the call's window
DropsExpired ==
    \E t \in Threads :
       LET identifier == threads[t].identifier
       IN /\ threads[t].pc = "popleft"
          /\ windows[identifier] # <<>>
          /\ Head(windows[identifier]) < threads[t].window_start
          /\ windows' = [windows EXCEPT ![identifier] = Tail(@)]
          /\ last_cleanup' = last_cleanup

\* C29: a denied is_allowed call records nothing: the step that denies leaves
\* every window and _last_cleanup as they are, and a step that changes a
\* window or _last_cleanup either drops a timestamp that left the window or
\* is the last step of a call that is admitted
C29_DeniedRecordsNothing ==
    [][/\ \A t \in Threads :
            (ReturnsFromIsAllowed(t) /\ ~returned'.allowed)
            => /\ windows' = windows
               /\ last_cleanup' = last_cleanup
       /\ (windows' # windows \/ last_cleanup' # last_cleanup)
            => \/ DropsExpired
               \/ \E t \in Threads : ReturnsFromIsAllowed(t) /\ returned'.allowed]_vars

\* a request at limit 1 was denied after the clock had left the first window,
\* while its identifier's window held a request of the current window and
\* another identifier's window was not empty
C29_Witness ==
    /\ returned.op = "is_allowed"
    /\ returned.exc = ""
    /\ ~returned.allowed
    /\ returned.limit = 1
    /\ returned.now > WindowSeconds
    /\ windows[returned.identifier] # <<>>
    /\ Head(windows[returned.identifier]) >= returned.now - WindowSeconds
    /\ \E identifier \in Identifiers \ {returned.identifier} :
          windows[identifier] # <<>>
\* C30: for fixed filters, sort and limit over an unchanging store the pages
\* of get_recipes_list partition the matching recipes: two different pages of
\* the same listing share no recipe (so every matching recipe is on exactly
\* one of the pages 1..total_pages), and a page beyond total_pages is empty
C30_PagesPartition ==
    [][(/\ listResult.status = 200
        /\ listResult'.status = 200
        /\ recipes' = recipes
        /\ [listResult'.query EXCEPT !.page = 0]
              = [listResult.query EXCEPT !.page = 0])
        => /\ listResult'.query.page # listResult.query.page
                => Range(listResult'.data) \cap Range(listResult.data) = {}
           /\ listResult'.query.page > listResult'.pagination.total_pages
                => listResult'.data = <<>>]_vars
====
